---- MODULE Spec2Model ----
(***************************************************************************)
(* Model of testresults.py: a Streamlit page that posts text to the Gemini *)
(* TTS endpoint, base64-decodes the returned audio, wraps raw L16 PCM in a *)
(* WAV container and renders an audio player with a download button.       *)
(*                                                                         *)
(* Python values are encoded as follows.                                   *)
(*   bytes          a sequence of integers 0..255                          *)
(*   str            a TLA+ string; the base64 text of inlineData.data is a *)
(*                  sequence of one-character strings so that it can be    *)
(*                  scanned character by character                         *)
(*   dict           a function with a set of strings as its domain         *)
(*   list           a sequence                                             *)
(*   None / value   None == <<>> and Some(v) == <<v>>                      *)
(* The host is little-endian, as wave.py assumes when it does not swap.    *)
(***************************************************************************)
EXTENDS Integers, Sequences, FiniteSets, TLC

VARIABLES
    api_key,        \* value of the st.text_input widget
    text_input,     \* value of the st.text_area widget
    selected_voice, \* value of the st.selectbox widget
    disabled,       \* the disabled flag the button was last rendered with
    clicked,        \* what st.button returned in the latest script run
    pc,             \* "idle": script run finished; "posting": inside requests.post
    called,         \* generate_speech was invoked in the latest script run
    posts,          \* the HTTP POSTs issued by the latest script run
    response,       \* the outcome requests.post delivered to the latest call
    ret,            \* the pair generate_speech returned in the latest run
    page            \* the elements the latest script run rendered, in order

vars == <<api_key, text_input, selected_voice, disabled, clicked, pc, called,
          posts, response, ret, page>>

(***************************************************************************)
(* Bounds of the model.                                                    *)
(***************************************************************************)
MaxLen == 3

ByteVals == {0, 1, 255}

Keys == {"", "AIzaSyKey"}

Texts == {"", "Hello world", "Hi"}

(***************************************************************************)
(* Generic helpers.                                                        *)
(***************************************************************************)
None == <<>>

Some(v) == <<v>>

Contains(sub, s) ==
    \E i \in 1..(Len(s) - Len(sub) + 1) : SubSeq(s, i, i + Len(sub) - 1) = sub

Truthy(opt) == opt # None /\ Len(opt[1]) > 0

RECURSIVE SeqsUpTo(_, _)
SeqsUpTo(S, n) ==
    IF n = 0 THEN {<<>>}
    ELSE LET shorter == SeqsUpTo(S, n - 1)
         IN  shorter \cup {Append(s, b) : s \in shorter, b \in S}

(***************************************************************************)
(* convert_l16_to_wav and the wave.Wave_write calls it makes.              *)
(***************************************************************************)
sample_rate == 24000

num_channels == 1

sample_width == 2

\* struct.pack('<H', n)
pack_H(n) == <<n % 256, (n \div 256) % 256>>

\* struct.pack('<L', n)
pack_L(n) ==
    <<n % 256, (n \div 256) % 256, (n \div 65536) % 256, (n \div 16777216) % 256>>

\* Wave_write._write_header: the 44 header bytes for a declared data length
wave_header(datalength) ==
    <<82, 73, 70, 70>> \o pack_L(36 + datalength)         \* 'RIFF', form length
        \o <<87, 65, 86, 69>> \o <<102, 109, 116, 32>>     \* 'WAVE', 'fmt '
        \o pack_L(16) \o pack_H(1)                          \* chunk size, WAVE_FORMAT_PCM
        \o pack_H(num_channels) \o pack_L(sample_rate)
        \o pack_L(num_channels * sample_rate * sample_width)
        \o pack_H(num_channels * sample_width)
        \o pack_H(sample_width * 8)
        \o <<100, 97, 116, 97>> \o pack_L(datalength)       \* 'data', data length

\* Wave_write._patchheader: overwrite the form length (offset 4) and the data
\* length (offset 40) with the number of bytes actually written
patchheader(file, datawritten) ==
    [i \in 1..Len(file) |->
        IF i \in 5..8 THEN pack_L(36 + datawritten)[i - 4]
        ELSE IF i \in 41..44 THEN pack_L(datawritten)[i - 40]
        ELSE file[i]]

\* A writer that never patches the header it wrote from the whole-frame count.
convert_l16_to_wav_nopatch(pcm_data) ==
    LET nframes    == Len(pcm_data) \div (num_channels * sample_width)
        datalength == nframes * num_channels * sample_width
    IN  wave_header(datalength) \o pcm_data

\* A writer that swaps the two bytes of every sample, as on a big-endian host.
convert_l16_to_wav_swapped(pcm_data) ==
    wave_header(Len(pcm_data))
        \o [i \in 1..Len(pcm_data) |->
               IF i % 2 = 1
               THEN (IF i + 1 <= Len(pcm_data) THEN pcm_data[i + 1] ELSE pcm_data[i])
               ELSE pcm_data[i - 1]]

\* A writer that keeps whole frames only, dropping a trailing partial frame.
convert_l16_to_wav_truncating(pcm_data) ==
    LET nframes    == Len(pcm_data) \div (num_channels * sample_width)
        datalength == nframes * num_channels * sample_width
    IN  wave_header(datalength) \o SubSeq(pcm_data, 1, datalength)

convert_l16_to_wav(pcm_data) ==
    LET \* writeframes -> _ensure_header_written(len(data))
        nframes     == Len(pcm_data) \div (num_channels * sample_width)
        datalength  == nframes * num_channels * sample_width
        \* writeframesraw: the data is written as given (no byte swap)
        file        == wave_header(datalength) \o pcm_data
        datawritten == Len(pcm_data)
    IN  IF datalength # datawritten THEN patchheader(file, datawritten) ELSE file

(***************************************************************************)
(* A standard RIFF/WAVE reader (the counterpart of wave.Wave_read), used   *)
(* to state what a decoder gets out of a produced container.  Every field  *)
(* is read from the bytes of the file.                                     *)
(***************************************************************************)
unpack_H(b, off) == b[off + 1] + 256 * b[off + 2]

unpack_L(b, off) ==
    b[off + 1] + 256 * b[off + 2] + 65536 * b[off + 3] + 16777216 * b[off + 4]

wave_read(file) ==
    IF \/ Len(file) < 44
       \/ SubSeq(file, 1, 4) # <<82, 73, 70, 70>>
       \/ SubSeq(file, 9, 12) # <<87, 65, 86, 69>>
       \/ SubSeq(file, 13, 16) # <<102, 109, 116, 32>>
       \/ unpack_L(file, 16) # 16
       \/ unpack_H(file, 20) # 1
       \/ SubSeq(file, 37, 40) # <<100, 97, 116, 97>>
    THEN [valid |-> FALSE]
    ELSE LET nchannels == unpack_H(file, 22)
             framerate == unpack_L(file, 24)
             bits      == unpack_H(file, 34)
             sampwidth == (bits + 7) \div 8
             framesize == nchannels * sampwidth
             chunksize == unpack_L(file, 40)
             nframes   == IF framesize = 0 THEN 0 ELSE chunksize \div framesize
             nbytes    == nframes * framesize
         IN  IF framesize = 0 \/ 44 + nbytes > Len(file)
             THEN [valid |-> FALSE]
             ELSE [valid     |-> TRUE,
                   nchannels |-> nchannels,
                   framerate |-> framerate,
                   bits      |-> bits,
                   datasize  |-> chunksize,
                   frames    |-> SubSeq(file, 45, 44 + nbytes)]

(***************************************************************************)
(* base64.b64decode(s): binascii.a2b_base64 in its default, non-strict     *)
(* mode.  The result is [ok |-> TRUE, val |-> bytes] or the exception.     *)
(***************************************************************************)
B64Alphabet ==
    <<"A", "B", "C", "D", "E", "F", "G", "H", "I", "J", "K", "L", "M",
      "N", "O", "P", "Q", "R", "S", "T", "U", "V", "W", "X", "Y", "Z",
      "a", "b", "c", "d", "e", "f", "g", "h", "i", "j", "k", "l", "m",
      "n", "o", "p", "q", "r", "s", "t", "u", "v", "w", "x", "y", "z",
      "0", "1", "2", "3", "4", "5", "6", "7", "8", "9", "+", "/">>

IsB64Char(ch) == \E i \in 1..64 : B64Alphabet[i] = ch

B64Value(ch) == (CHOOSE i \in 1..64 : B64Alphabet[i] = ch) - 1

Raise(exc, msg) == [ok |-> FALSE, exc |-> exc, msg |-> msg]

Return(v) == [ok |-> TRUE, val |-> v]

RECURSIVE a2b_base64(_, _, _, _, _, _)
a2b_base64(s, i, quad_pos, leftchar, pads, out) ==
    IF i > Len(s)
    THEN IF quad_pos = 0 THEN Return(out)
         ELSE IF quad_pos = 1
         THEN Raise("binascii.Error",
                    "Invalid base64-encoded string: number of data characters ("
                        \o ToString((Len(out) \div 3) * 4 + 1)
                        \o ") cannot be 1 more than a multiple of 4")
         ELSE Raise("binascii.Error", "Incorrect padding")
    ELSE LET ch == s[i] IN
         IF ch = "="
         THEN IF quad_pos >= 2 /\ quad_pos + pads + 1 >= 4
              THEN Return(out)      \* a complete pad sequence ends the parse
              ELSE a2b_base64(s, i + 1, quad_pos, leftchar,
                              IF quad_pos >= 2 THEN pads + 1 ELSE pads, out)
         ELSE IF ~IsB64Char(ch)
         THEN a2b_base64(s, i + 1, quad_pos, leftchar, pads, out)
         ELSE LET v == B64Value(ch) IN
              CASE quad_pos = 0 ->
                       a2b_base64(s, i + 1, 1, v, 0, out)
                [] quad_pos = 1 ->
                       a2b_base64(s, i + 1, 2, v % 16, 0,
                                  Append(out, (leftchar * 4 + v \div 16) % 256))
                [] quad_pos = 2 ->
                       a2b_base64(s, i + 1, 3, v % 4, 0,
                                  Append(out, (leftchar * 16 + v \div 4) % 256))
                [] OTHER ->
                       a2b_base64(s, i + 1, 0, 0, 0,
                                  Append(out, (leftchar * 64 + v) % 256))

b64decode(s) == a2b_base64(s, 1, 0, 0, 0, <<>>)

(***************************************************************************)
(* The API server's side: the standard base64 encoding of the audio bytes  *)
(* it puts into inlineData.data.                                           *)
(***************************************************************************)
B64Char(v) == B64Alphabet[v + 1]

RECURSIVE b64encode(_)
b64encode(b) ==
    IF Len(b) = 0 THEN <<>>
    ELSE IF Len(b) = 1
    THEN <<B64Char(b[1] \div 4), B64Char((b[1] % 4) * 16), "=", "=">>
    ELSE IF Len(b) = 2
    THEN <<B64Char(b[1] \div 4),
           B64Char((b[1] % 4) * 16 + b[2] \div 16),
           B64Char((b[2] % 16) * 4), "=">>
    ELSE <<B64Char(b[1] \div 4),
           B64Char((b[1] % 4) * 16 + b[2] \div 16),
           B64Char((b[2] % 16) * 4 + b[3] \div 64),
           B64Char(b[3] % 64)>> \o b64encode(SubSeq(b, 4, Len(b)))

(***************************************************************************)
(* The outcomes of requests.post that the environment can deliver.         *)
(***************************************************************************)
EmptyDict == [k \in {} |-> k]

HasKey(d, k) == DOMAIN d # {} /\ k \in DOMAIN d

PcmPayloads == SeqsUpTo(ByteVals, MaxLen)

Chop(s) == SubSeq(s, 1, Len(s) - 1)

DataStrings ==
    {b64encode(p) : p \in PcmPayloads}
        \cup {Chop(b64encode(p)) : p \in PcmPayloads \ {<<>>}}
        \cup {<<"!", "!">>, <<"A">>}

MimeTypes ==
    {"audio/L16;codec=pcm;rate=24000", "audio/pcm;rate=24000",
     "audio/l16;rate=24000", "audio/wav", "audio/mpeg"}

WithParts(parts) == [candidates |-> <<[content |-> [parts |-> parts]]>>]

WithInline(inline) == WithParts(<<[inlineData |-> inline]>>)

JsonObjects ==
    {[promptFeedback |-> [blockReason |-> "SAFETY"]],
     [candidates |-> <<>>],
     [candidates |-> <<[finishReason |-> "SAFETY"]>>],
     [candidates |-> <<[content |-> [role |-> "model"]]>>],
     WithParts(<<>>),
     WithParts(<<[text |-> "hi"]>>),
     WithInline(EmptyDict)}
        \cup {WithInline([mimeType |-> m]) : m \in MimeTypes}
        \cup {WithInline([data |-> d]) : d \in {<<>>, <<"A", "A", "=", "=">>}}
        \cup {WithInline([mimeType |-> m, data |-> d]) : m \in MimeTypes, d \in DataStrings}

Bodies ==
    {[json |-> "invalid"], [json |-> "null"]}
        \cup {[json |-> "object", value |-> o] : o \in JsonObjects}

Outcomes ==
    {[kind |-> "ConnectionError", desc |-> d] :
        d \in {"Connection refused", "Name or service not known"}}
        \cup {[kind |-> "response", status_code |-> 200, reason |-> "OK", body |-> b] :
                b \in Bodies}
        \cup {[kind |-> "response", status_code |-> 403, reason |-> "Forbidden",
               body |-> [json |-> "invalid"]],
              [kind |-> "response", status_code |-> 500,
               reason |-> "Internal Server Error",
               body |-> [json |-> "null"]]}

NoResponse == [kind |-> "none"]

(***************************************************************************)
(* generate_speech.                                                        *)
(***************************************************************************)
EndpointUrl ==
    "https://generativelanguage.googleapis.com/v1beta/models/gemini-2.5-flash-preview-tts:generateContent?key="

\* The request generate_speech builds: url, headers and the JSON payload.
build_request(key, text, voice_name) ==
    [url     |-> EndpointUrl \o key,
     headers |-> [ContentType |-> "application/json"],
     payload |-> [contents |-> <<[role |-> "user", parts |-> <<[text |-> text]>>]>>,
                  generationConfig |->
                      [responseModalities |-> <<"AUDIO">>,
                       speechConfig |-> [voiceConfig |-> [prebuiltVoiceConfig |->
                                            [voiceName |-> voice_name]]]]]]

\* response.raise_for_status()
raise_for_status(url, resp) ==
    IF resp.status_code >= 400 /\ resp.status_code < 500
    THEN Raise("requests.HTTPError",
               ToString(resp.status_code) \o " Client Error: " \o resp.reason
                   \o " for url: " \o url)
    ELSE IF resp.status_code >= 500 /\ resp.status_code < 600
    THEN Raise("requests.HTTPError",
               ToString(resp.status_code) \o " Server Error: " \o resp.reason
                   \o " for url: " \o url)
    ELSE Return(resp)

\* A candidates test that forgets the length check.
has_candidates_nolen(result) == HasKey(result, "candidates")

\* "candidates" in result and len(result["candidates"]) > 0
has_candidates(result) ==
    HasKey(result, "candidates") /\ Len(result.candidates) > 0

\* A mime test that knows only the L16 label.
is_raw_pcm_l16_only(mime_type) == Contains("audio/L16", mime_type)

\* "audio/L16" in mime_type or "audio/pcm" in mime_type
is_raw_pcm(mime_type) ==
    Contains("audio/L16", mime_type) \/ Contains("audio/pcm", mime_type)

Pair(audio, error) == [audio |-> audio, error |-> error]

\* The body of the try block from result = response.json() on.
extract_audio(body) ==
    IF body.json = "invalid"
    THEN Raise("requests.JSONDecodeError", "Expecting value: line 1 column 1 (char 0)")
    ELSE IF body.json = "null"
    THEN Raise("TypeError", "argument of type 'NoneType' is not iterable")
    ELSE LET result == body.value IN
         IF ~has_candidates(result)
         THEN Return(Pair(None, Some("No audio data in response")))
         ELSE IF Len(result.candidates) = 0      \* result["candidates"][0]
         THEN Raise("IndexError", "list index out of range")
         ELSE LET candidate == result.candidates[1] IN
              IF ~HasKey(candidate, "content") THEN Raise("KeyError", "'content'")
              ELSE IF ~HasKey(candidate.content, "parts") THEN Raise("KeyError", "'parts'")
              ELSE IF Len(candidate.content.parts) = 0
              THEN Raise("IndexError", "list index out of range")
              ELSE LET part == candidate.content.parts[1] IN
                   \* .get("inlineData"): a missing key and an empty dict are both falsy
                   IF ~HasKey(part, "inlineData") \/ DOMAIN part.inlineData = {}
                   THEN Return(Pair(None, Some("No audio data in response")))
                   ELSE LET inline_data == part.inlineData IN
                        IF ~HasKey(inline_data, "data") THEN Raise("KeyError", "'data'")
                        ELSE LET decoded == b64decode(inline_data.data) IN
                             IF ~decoded.ok THEN decoded
                             ELSE IF ~HasKey(inline_data, "mimeType")
                             THEN Raise("KeyError", "'mimeType'")
                             ELSE Return(Pair(
                                      Some(IF is_raw_pcm(inline_data.mimeType)
                                           THEN convert_l16_to_wav(decoded.val)
                                           ELSE decoded.val),
                                      None))

RequestExceptions ==
    {"requests.ConnectionError", "requests.HTTPError", "requests.JSONDecodeError"}

\* What generate_speech returns once requests.post has produced `outcome`.
generate_speech(url, outcome) ==
    LET attempt ==
            IF outcome.kind = "ConnectionError"
            THEN Raise("requests.ConnectionError", outcome.desc)
            ELSE LET checked == raise_for_status(url, outcome) IN
                 IF ~checked.ok THEN checked ELSE extract_audio(outcome.body)
    IN  IF attempt.ok THEN attempt.val
        ELSE IF attempt.exc \in RequestExceptions
        THEN Pair(None, Some("API Error: " \o attempt.msg))
        ELSE Pair(None, Some("Error: " \o attempt.msg))

(***************************************************************************)
(* The Streamlit script: one run per frontend event.                       *)
(***************************************************************************)
voices ==
    <<"Puck", "Charon", "Kore", "Fenrir", "Aoede",
      "Leda", "Grus", "Elio", "Kiera", "Orion">>

NoReturn == Pair(None, None)

\* The character counter rendered under the text area.
char_counter(text) ==
    LET char_count == Len(text) IN
    IF char_count > 0
    THEN <<[el    |-> "markdown",
            color |-> IF char_count > 2000 THEN "red"
                      ELSE IF char_count > 1500 THEN "orange" ELSE "green",
            count |-> char_count]>>
    ELSE <<>>

\* A disabled flag that needs both inputs to be empty.
button_disabled_both(key, text) == key = "" /\ text = ""

\* disabled=not api_key or not text_input
button_disabled(key, text) == key = "" \/ text = ""

\* A branch chain that forgets the text check.
button_branch_nokeytext(key, text) ==
    IF key = "" THEN "no_key" ELSE "generate"

\* The if / elif / else under the pressed button.
button_branch(key, text) ==
    IF key = "" THEN "no_key"
    ELSE IF text = "" THEN "no_text"
    ELSE "generate"

\* What is rendered for the pair generate_speech returned.
render_result(pair) ==
    IF Truthy(pair.error)
    THEN <<[el |-> "error", body |-> pair.error[1]]>>
    ELSE IF Truthy(pair.audio)
    THEN <<[el |-> "success", body |-> "Audio generated successfully!"],
           [el |-> "audio", data |-> pair.audio[1], format |-> "audio/wav"],
           [el |-> "download_button", data |-> pair.audio[1],
            file_name |-> "gemini_tts_output.wav", mime |-> "audio/wav"]>>
    ELSE <<>>

Init ==
    /\ api_key = ""
    /\ text_input = ""
    /\ selected_voice = voices[1]
    /\ disabled = button_disabled("", "")
    /\ clicked = FALSE
    /\ pc = "idle"
    /\ called = FALSE
    /\ posts = <<>>
    /\ response = NoResponse
    /\ ret = NoReturn
    /\ page = <<>>

\* One run of the script with the widget values key, text, voice and the
\* button returning `pressed`, up to the point where it blocks in requests.post.
Rerun(key, text, voice, pressed) ==
    /\ api_key' = key
    /\ text_input' = text
    /\ selected_voice' = voice
    /\ disabled' = button_disabled(key, text)
    /\ clicked' = pressed
    /\ response' = NoResponse
    /\ ret' = NoReturn
    /\ IF pressed /\ button_branch(key, text) = "generate"
       THEN /\ pc' = "posting"
            /\ called' = TRUE
            /\ posts' = <<build_request(key, text, voice)>>
            /\ page' = char_counter(text) \o <<[el |-> "spinner"]>>
       ELSE /\ pc' = "idle"
            /\ called' = FALSE
            /\ posts' = <<>>
            /\ page' = char_counter(text) \o
                   (IF ~pressed THEN <<>>
                    ELSE IF button_branch(key, text) = "no_key"
                    THEN <<[el |-> "error", body |-> "Please enter your Gemini API key"]>>
                    ELSE <<[el |-> "error", body |-> "Please enter some text to convert"]>>)

EditKey ==
    /\ pc = "idle"
    /\ \E key \in Keys \ {api_key} : Rerun(key, text_input, selected_voice, FALSE)

EditText ==
    /\ pc = "idle"
    /\ \E text \in Texts \ {text_input} : Rerun(api_key, text, selected_voice, FALSE)

SelectVoice ==
    /\ pc = "idle"
    /\ \E i \in 1..Len(voices) :
          /\ voices[i] # selected_voice
          /\ Rerun(api_key, text_input, voices[i], FALSE)

\* The button can be pressed only where the page shows it enabled.
Click ==
    /\ pc = "idle"
    /\ ~disabled
    /\ Rerun(api_key, text_input, selected_voice, TRUE)

\* A press of the enabled button that reaches the script together with an
\* edit of the key or the text that was still pending in the browser.
ClickWithEdit ==
    /\ pc = "idle"
    /\ ~disabled
    /\ \E key \in Keys, text \in Texts :
          /\ <<key, text>> # <<api_key, text_input>>
          /\ Rerun(key, text, selected_voice, TRUE)

\* A return path that posts again after a connection error.
HttpReturnRetry ==
    /\ pc = "posting"
    /\ \E outcome \in Outcomes :
          IF outcome.kind = "ConnectionError" /\ Len(posts) < 2
          THEN /\ posts' = Append(posts, posts[1])
               /\ UNCHANGED <<api_key, text_input, selected_voice, disabled, clicked,
                              pc, called, response, ret, page>>
          ELSE /\ response' = outcome
               /\ ret' = generate_speech(posts[1].url, outcome)
               /\ page' = char_counter(text_input) \o render_result(ret')
               /\ pc' = "idle"
               /\ UNCHANGED <<api_key, text_input, selected_voice, disabled, clicked,
                              called, posts>>

\* requests.post returns or raises; generate_speech finishes and the script
\* renders its result.
HttpReturn ==
    /\ pc = "posting"
    /\ \E outcome \in Outcomes :
          /\ response' = outcome
          /\ ret' = generate_speech(posts[1].url, outcome)
          /\ page' = char_counter(text_input) \o render_result(ret')
          /\ pc' = "idle"
          /\ UNCHANGED <<api_key, text_input, selected_voice, disabled, clicked,
                         called, posts>>

Next ==
    \/ EditKey
    \/ EditText
    \/ SelectVoice
    \/ Click
    \/ ClickWithEdit
    \/ HttpReturn

Spec == Init /\ [][Next]_vars

(***************************************************************************)
(* Vocabulary of the properties: the latest call and what it was given.    *)
(***************************************************************************)
\* generate_speech was invoked in the latest run and has returned
Completed == pc = "idle" /\ called

\* the HTTP call succeeded and its body parsed to a JSON object
GotObject ==
    /\ Completed
    /\ response.kind = "response"
    /\ response.status_code >= 200 /\ response.status_code < 300
    /\ response.body.json = "object"

Result == response.body.value

\* the object has a first candidate
GotCandidate ==
    GotObject /\ HasKey(Result, "candidates") /\ Result.candidates # <<>>

\* candidates[0].content.parts[0] exists
GotPart ==
    /\ GotCandidate
    /\ HasKey(Result.candidates[1], "content")
    /\ HasKey(Result.candidates[1].content, "parts")
    /\ Result.candidates[1].content.parts # <<>>

Part == Result.candidates[1].content.parts[1]

\* the response carries inlineData with a mimeType and decodable base64 data
GotAudio ==
    /\ GotPart
    /\ HasKey(Part, "inlineData")
    /\ HasKey(Part.inlineData, "data")
    /\ HasKey(Part.inlineData, "mimeType")
    /\ b64decode(Part.inlineData.data).ok

MimeType == Part.inlineData.mimeType

Decoded == b64decode(Part.inlineData.data).val

MimeSaysRawPcm == Contains("audio/L16", MimeType) \/ Contains("audio/pcm", MimeType)

GotRawPcm == GotAudio /\ MimeSaysRawPcm

HasElement(kind) == \E i \in 1..Len(page) : page[i].el = kind

NoAudioError == Pair(None, Some("No audio data in response"))

\* C1: every completed call returns exactly one of a (non-empty) audio payload
\* and a non-empty error string: never both and never neither.
C1_ExactlyOneOfAudioOrError ==
    Completed =>
        \/ /\ ret.audio # None /\ Len(ret.audio[1]) > 0
           /\ ret.error = None
        \/ /\ ret.audio = None
           /\ ret.error # None /\ Len(ret.error[1]) > 0

\* C2: for raw PCM S of even length, reading the returned container back
\* yields exactly S, with 1 channel, 24000 Hz and 16 bits per sample.
C2_RoundTrip ==
    (GotRawPcm /\ Len(Decoded) % 2 = 0) =>
        /\ ret.audio # None
        /\ LET wav == wave_read(ret.audio[1]) IN
           /\ wav.valid
           /\ wav.frames = Decoded
           /\ wav.nchannels = 1
           /\ wav.framerate = 24000
           /\ wav.bits = 16

C2_Witness ==
    /\ GotRawPcm
    /\ Len(Decoded) = 2 /\ Decoded[1] # Decoded[2]
    /\ ret.audio # None
    /\ wave_read(ret.audio[1]).valid
    /\ wave_read(ret.audio[1]).frames = Decoded

\* C3: for every raw PCM S the returned container is a 44-byte header followed
\* by S verbatim, and the header's data-chunk size field equals len(S).
C3_HeaderThenDataVerbatim ==
    GotRawPcm =>
        /\ ret.audio # None
        /\ LET wav == ret.audio[1] IN
           /\ Len(wav) = Len(Decoded) + 44
           /\ SubSeq(wav, 1, 4) = <<82, 73, 70, 70>>
           /\ SubSeq(wav, 37, 40) = <<100, 97, 116, 97>>
           /\ SubSeq(wav, 45, Len(wav)) = Decoded
           /\ unpack_L(wav, 40) = Len(Decoded)
           /\ unpack_L(wav, 4) = Len(Decoded) + 36

C3_Witness ==
    /\ GotRawPcm
    /\ Len(Decoded) = MaxLen
    /\ ret.audio # None
    /\ Len(ret.audio[1]) = MaxLen + 44
    /\ unpack_L(ret.audio[1], 40) = MaxLen

\* C4: a successful response whose JSON object has no "candidates" key, or an
\* empty "candidates" list, gives audio None and "No audio data in response".
C4_NoCandidatesGivesNoAudioError ==
    (GotObject /\ (~HasKey(Result, "candidates") \/ Result.candidates = <<>>)) =>
        ret = NoAudioError

C4_Witness ==
    /\ GotObject
    /\ ~HasKey(Result, "candidates")
    /\ ret = NoAudioError

\* C5: a successful response that lacks any segment of the path
\* candidates[0].content.parts[0].inlineData gives the specific error
\* "No audio data in response", not a wrapped "Error: ..." message.
C5_MissingPathGivesNoAudioError ==
    (GotCandidate /\ ~(GotPart /\ HasKey(Part, "inlineData"))) =>
        ret = NoAudioError

\* C6: the decoded bytes are wrapped by convert_l16_to_wav exactly when the
\* mimeType contains "audio/L16" or "audio/pcm"; otherwise they are returned
\* unchanged, without a header.
C6_ConvertIffRawPcmMime ==
    GotAudio =>
        /\ ret.error = None
        /\ IF MimeSaysRawPcm
           THEN /\ ret.audio = Some(convert_l16_to_wav(Decoded))
                /\ Len(ret.audio[1]) = Len(Decoded) + 44
           ELSE ret.audio = Some(Decoded)

C6_Witness ==
    /\ GotAudio
    /\ MimeType = "audio/l16;rate=24000"
    /\ Len(Decoded) = MaxLen
    /\ ret = Pair(Some(Decoded), None)

TransportFailure ==
    \/ response.kind = "ConnectionError"
    \/ /\ response.kind = "response"
       /\ ~(response.status_code >= 200 /\ response.status_code < 300)

FailureDescription ==
    IF response.kind = "ConnectionError" THEN response.desc
    ELSE ToString(response.status_code) \o
             (IF response.status_code < 500 THEN " Client Error: " ELSE " Server Error: ")
             \o response.reason

C8_PartialFrameTolerated ==
    (GotRawPcm /\ Len(Decoded) % 2 = 1) =>
        /\ ret.error = None
        /\ ret.audio # None
        /\ Len(ret.audio[1]) = 44 + Len(Decoded)
        /\ \A i \in 1..Len(Decoded) : ret.audio[1][44 + i] = Decoded[i]

C8_Witness ==
    /\ GotRawPcm
    /\ Len(Decoded) = 1
    /\ ret.error = None
    /\ ret.audio # None
    /\ Len(ret.audio[1]) = 45

MissingInputError(body) ==
    \E i \in 1..Len(page) : page[i] = [el |-> "error", body |-> body]

\* C9: generate_speech is invoked, and a request posted, only in a run where
\* the button was pressed with key and text both non-empty; the button is
\* rendered disabled whenever either is empty; a press with the key or the
\* text missing shows the missing-input error and makes no call.
C9_CallOnlyWithKeyAndText ==
    /\ disabled = (api_key = "" \/ text_input = "")
    /\ (called \/ pc = "posting" \/ posts # <<>>) =>
           clicked /\ api_key # "" /\ text_input # ""
    /\ (clicked /\ api_key = "") =>
           /\ ~called /\ posts = <<>> /\ pc = "idle"
           /\ MissingInputError("Please enter your Gemini API key")
    /\ (clicked /\ api_key # "" /\ text_input = "") =>
           /\ ~called /\ posts = <<>> /\ pc = "idle"
           /\ MissingInputError("Please enter some text to convert")

C9_Witness ==
    /\ clicked
    /\ api_key # "" /\ text_input = ""
    /\ ~called /\ posts = <<>>
    /\ MissingInputError("Please enter some text to convert")

\* C10: after every completed call the page shows exactly one of an error
\* message, or the audio player together with the download button
\* (gemini_tts_output.wav, audio/wav).
C10_ErrorOrPlayer ==
    Completed =>
        \/ /\ HasElement("error")
           /\ ~HasElement("audio") /\ ~HasElement("download_button")
        \/ /\ ~HasElement("error")
           /\ \E i \in 1..Len(page) :
                 /\ page[i].el = "audio"
                 /\ page[i].data = ret.audio[1]
           /\ \E i \in 1..Len(page) :
                 /\ page[i].el = "download_button"
                 /\ page[i].file_name = "gemini_tts_output.wav"
                 /\ page[i].mime = "audio/wav"

====
